---- MODULE Spec2Model ----
(***************************************************************************)
(* The DheeCuit recipe API.  The repository holds three variants of the    *)
(* server, each a separate program with its own database:                  *)
(*   "server"  src/server.js         recipes only, no authentication       *)
(*   "auth"    src/unnamed/part_000  users, JWT tokens, recipes            *)
(*   "api"     src/unnamed/part_001  users by email, JWT tokens            *)
(* The variable variant says which program is running; it never changes.   *)
(*                                                                         *)
(* A handler is cut at the awaits between two statements on the store:     *)
(* a handler with one statement is one action, a handler with a SELECT     *)
(* followed by a write is two actions with the request held in inflight.   *)
(* Each finished request leaves its request and response in last.          *)
(***************************************************************************)
EXTENDS Integers, Sequences, FiniteSets, Bags, TLC

VARIABLES
    variant,      \* which program runs
    schema,       \* api: whether the users table pre-exists or initDB made it
    now,          \* the clock, in seconds
    users,        \* the rows of table users
    recipes,      \* the rows of table recipes
    nextRecipeId, \* the sequence behind recipes.id (SERIAL)
    held,         \* the bearer token the client keeps
    createdBy,    \* the client's record: recipe id and user id of each POST
                  \* /recipes it sent with a valid token and saw answered 201
    inflight,     \* the bag of requests that stand between two store statements
    last          \* the request answered last, and its response

vars == <<variant, schema, now, users, recipes, nextRecipeId, held, createdBy,
          inflight, last>>

----------------------------------------------------------------------------
(* Bounds and input domains *)

MaxRecipes == 1
MaxTicks == 2
MaxInFlight == 2

\* The handlers that can stand between two store statements at once.
Handlers == 1..MaxInFlight

\* SQL NULL in an integer column (SERIAL ids start at 1).
Null == 0

\* A JSON field that is absent from the request body (JavaScript undefined).
Undefined == "<undefined>"

Usernames == {"alice", "bob"}
Emails == {"a@x.io", "b@x.io"}
Passwords == {Undefined, "", "abc", "secret1"}

\* Request bodies of POST /recipes and PUT /recipes/:id.
RecipeBodies ==
    { [title |-> "Soup", ingredients |-> "water", instructions |-> "boil"],
      [title |-> "Stew", ingredients |-> "water", instructions |-> "boil"],
      [title |-> "",     ingredients |-> "water", instructions |-> "boil"],
      [title |-> "Soup", ingredients |-> "",      instructions |-> "boil"],
      [title |-> "Soup", ingredients |-> "water", instructions |-> ""],
      [title |-> Undefined, ingredients |-> "water", instructions |-> "boil"],
      [title |-> "Soup", ingredients |-> Undefined, instructions |-> "boil"],
      [title |-> "Soup", ingredients |-> "water", instructions |-> Undefined] }

NoBody == [title |-> Undefined, ingredients |-> Undefined, instructions |-> Undefined]

RecipeIds == 1..MaxRecipes

\* expiresIn: '24h', in seconds.
TTL == 86400
ClockStep == TTL \div 2
MaxNow == MaxTicks * ClockStep

----------------------------------------------------------------------------
(* JavaScript and library primitives *)

\* !x for a string-or-undefined x.
Falsy(x) == x = Undefined \/ x = ""

\* password.length
StrLen(s) == CASE s = ""         -> 0
               [] s = "abc"      -> 3
               [] s = "secret1"  -> 7
               [] OTHER          -> 0

\* bcrypt.hash(password, 10): a digest that is not the password.  The random
\* salt is left out: only whether a digest matches a password is used.
BcryptHash(password) == "$2b$10$" \o password

\* bcrypt.compare(password, hash)
BcryptCompare(password, hash) == hash = BcryptHash(password)

\* bcrypt.hash and bcrypt.compare reject when the data argument is undefined.
BcryptThrows(password) == password = Undefined

----------------------------------------------------------------------------
(* Tokens *)

NoToken == [kind |-> "none", userId |-> Null, username |-> Undefined,
            iat |-> 0, exp |-> 0, key |-> "none"]
\* A bearer string that is no JWT at all.
MalformedToken == [NoToken EXCEPT !.kind = "malformed"]

\* jwt.sign(payload, JWT_SECRET, { expiresIn: '24h' })
JwtSign(userId, username, at) ==
    [kind |-> "jwt", userId |-> userId, username |-> username,
     iat |-> at, exp |-> at + TTL, key |-> "server"]

\* The same token signed with a key that is not the server's.
Forged(token) == [token EXCEPT !.key = "other"]

JwtVerifyLateExpiry(token, at) ==
    token.kind = "jwt" /\ token.key = "server" /\ ~(at > token.exp)

\* jwt.verify(token, JWT_SECRET): TRUE when it yields the payload, FALSE when
\* it fails (malformed, invalid signature, or clockTimestamp >= exp).
JwtVerify(token, at) ==
    token.kind = "jwt" /\ token.key = "server" /\ ~(at >= token.exp)

\* The bearer values a client can send: nothing, garbage, the token it holds,
\* or that token re-signed with another key.
Bearers == {NoToken, MalformedToken, held} \union
           (IF held.kind = "jwt" THEN {Forged(held)} ELSE {})

----------------------------------------------------------------------------
(* Requests and responses *)

NoUserView == [id |-> Null]
NoRecipe == [id |-> Null]

Req0 == [username |-> Undefined, email |-> Undefined, password |-> Undefined,
         bearer |-> NoToken, id |-> Null, body |-> NoBody]

\* res.status(status).json({ error })
ErrorResponse(op, req, status, error) ==
    [op |-> op, req |-> req, status |-> status, error |-> error,
     user |-> NoUserView, token |-> NoToken, recipe |-> NoRecipe, list |-> {}]

\* res.status(status).json({ success: true, ... })
OkResponse(op, req, status, user, token, recipe) ==
    [op |-> op, req |-> req, status |-> status, error |-> "",
     user |-> user, token |-> token, recipe |-> recipe, list |-> {}]

\* No response is being delivered.
NoResponse ==
    [op |-> "none", req |-> Req0, status |-> 0, error |-> "",
     user |-> NoUserView, token |-> NoToken, recipe |-> NoRecipe, list |-> {}]

\* The response of the request answered before has been sent.
Sent == last = NoResponse

\* A handler is free to take a request up to its first store statement.
Free == BagCardinality(inflight) < Cardinality(Handlers)

\* The handler of request r waits for its next store statement.
Waiting(r, op) == r \in BagToSet(inflight) /\ r.op = op

\* The request goes to wait between two statements; it is answered.
Await(op, req) == inflight (+) SetToBag({[op |-> op, req |-> req]})
Answered(r) == inflight (-) SetToBag({r})

\* The client keeps the token of a response, or goes on with the one it has.
Keep(token) == held' \in {held, token}

----------------------------------------------------------------------------
(* Table users *)

\* SELECT id FROM users WHERE username = $1 OR email = $2
UsersByUsernameOrEmail(username, email) ==
    {u \in users : u.username = username \/ u.email = email}

\* SELECT ... FROM users WHERE username = $1
UsersByUsername(username) == {u \in users : u.username = username}

\* SELECT ... FROM users WHERE email = $1  (an undefined parameter is sent as
\* NULL, and email = NULL selects no row)
UsersByEmail(email) == {u \in users : email # Undefined /\ u.email = email}

\* SELECT ... FROM users WHERE id = $1
UsersById(id) == {u \in users : u.id = id}

\* id SERIAL PRIMARY KEY: users are never deleted, so the sequence stands at
\* the number of rows plus one.
NextUserId == Cardinality(users) + 1

\* username VARCHAR(50) UNIQUE NOT NULL, email VARCHAR(100) UNIQUE NOT NULL
UsersUniqueViolation(username, email) ==
    \E u \in users : u.username = username \/ u.email = email

\* email VARCHAR(255) UNIQUE NOT NULL
ApiUniqueViolation(email) == \E u \in users : u.email = email

----------------------------------------------------------------------------
(* part_000: POST /auth/register *)

\* RETURNING id, username, email, created_at
RegisterUserView(row) ==
    [id |-> row.id, username |-> row.username, email |-> row.email]

\* Lines 100-119: validation and the existence SELECT.
AuthRegisterStart(username, email, password) ==
    /\ variant = "auth"
    /\ Sent
    /\ Free
    /\ LET op == "POST /auth/register"
           req == [Req0 EXCEPT !.username = username, !.email = email,
                               !.password = password]
       IN  IF Falsy(username) \/ Falsy(email) \/ Falsy(password)
           THEN /\ last' = ErrorResponse(op, req, 400,
                              "Username, email, and password are required")
                /\ UNCHANGED inflight
           ELSE IF StrLen(password) < 6
           THEN /\ last' = ErrorResponse(op, req, 400,
                              "Password must be at least 6 characters")
                /\ UNCHANGED inflight
           ELSE IF UsersByUsernameOrEmail(username, email) # {}
           THEN /\ last' = ErrorResponse(op, req, 400,
                              "Username or email already exists")
                /\ UNCHANGED inflight
           ELSE /\ inflight' = Await(op, req)
                /\ UNCHANGED last
    /\ UNCHANGED <<variant, schema, now, users, recipes, nextRecipeId, held, createdBy>>

\* Lines 121-148: hash, INSERT, sign, respond; a rejected INSERT throws into
\* the catch.
AuthRegisterInsert(r) ==
    /\ variant = "auth"
    /\ Sent
    /\ Waiting(r, "POST /auth/register")
    /\ LET req == r.req
           row == [id |-> NextUserId, username |-> req.username,
                   email |-> req.email,
                   password_hash |-> BcryptHash(req.password)]
           token == JwtSign(row.id, row.username, now)
       IN  IF UsersUniqueViolation(req.username, req.email)
           THEN /\ last' = ErrorResponse(r.op, req, 500,
                              "Failed to register user")
                /\ UNCHANGED <<users, held>>
           ELSE /\ users' = users \union {row}
                /\ last' = OkResponse(r.op, req, 201,
                              RegisterUserView(row), token, NoRecipe)
                /\ Keep(token)
    /\ inflight' = Answered(r)
    /\ UNCHANGED <<variant, schema, now, recipes, nextRecipeId, createdBy>>

----------------------------------------------------------------------------
(* part_000: POST /auth/login *)

LoginUserViewWithHash(row) == row

\* user: { id, username, email }
LoginUserView(row) ==
    [id |-> row.id, username |-> row.username, email |-> row.email]

\* Lines 153-199: the response, and the token it carries (NoToken if none).
AuthLoginResponse(username, password) ==
    LET op == "POST /auth/login"
        req == [Req0 EXCEPT !.username = username, !.password = password]
        rows == UsersByUsername(username)
        user == CHOOSE u \in rows : TRUE
    IN  IF Falsy(username) \/ Falsy(password)
        THEN ErrorResponse(op, req, 400, "Username and password are required")
        ELSE IF rows = {}
        THEN ErrorResponse(op, req, 401, "Invalid username or password")
        ELSE IF ~BcryptCompare(password, user.password_hash)
        THEN ErrorResponse(op, req, 401, "Invalid username or password")
        ELSE OkResponse(op, req, 200, LoginUserView(user),
                        JwtSign(user.id, user.username, now), NoRecipe)

AuthLogin(username, password) ==
    /\ variant = "auth"
    /\ Sent
    /\ last' = AuthLoginResponse(username, password)
    /\ IF last'.token = NoToken THEN UNCHANGED held ELSE Keep(last'.token)
    /\ UNCHANGED <<variant, schema, now, users, recipes, nextRecipeId, createdBy, inflight>>

----------------------------------------------------------------------------
(* part_001: POST /api/register, POST /api/login, GET /api/user.            *)
(* initDB creates users with columns firstName, lastName (folded to        *)
(* firstname, lastname) while the statements name first_name, last_name:   *)
(* on a table initDB created (schema = "created") they are rejected; on a  *)
(* table that was there before (schema = "existing", CREATE TABLE IF NOT   *)
(* EXISTS leaves it alone) they run.  The name columns carry no constraint *)
(* the handlers depend on and are left out of the rows.                    *)

\* user: { id, first_name, last_name, email }
ApiRegisterUserView(row) == [id |-> row.id, email |-> row.email]

\* Lines 43-50: the existence SELECT and bcrypt.hash.
ApiRegisterStart(email, password) ==
    /\ variant = "api"
    /\ Sent
    /\ Free
    /\ LET op == "POST /api/register"
           req == [Req0 EXCEPT !.email = email, !.password = password]
       IN  IF UsersByEmail(email) # {}
           THEN /\ last' = ErrorResponse(op, req, 400, "Email already registered")
                /\ UNCHANGED inflight
           ELSE IF BcryptThrows(password)
           THEN /\ last' = ErrorResponse(op, req, 400,
                              "data and salt arguments required")
                /\ UNCHANGED inflight
           ELSE /\ inflight' = Await(op, req)
                /\ UNCHANGED last
    /\ UNCHANGED <<variant, schema, now, users, recipes, nextRecipeId, held, createdBy>>

\* Lines 52-69: INSERT and respond; the catch answers 400 with error.message.
ApiRegisterInsert(r) ==
    /\ variant = "api"
    /\ Sent
    /\ Waiting(r, "POST /api/register")
    /\ LET req == r.req
           row == [id |-> NextUserId, username |-> Undefined,
                   email |-> req.email,
                   password_hash |-> BcryptHash(req.password)]
       IN  IF schema = "created"
           THEN /\ last' = ErrorResponse(r.op, req, 400,
                              "column first_name of relation users does not exist")
                /\ UNCHANGED users
           ELSE IF req.email = Undefined
           THEN /\ last' = ErrorResponse(r.op, req, 400,
                              "null value in column email violates not-null constraint")
                /\ UNCHANGED users
           ELSE IF ApiUniqueViolation(req.email)
           THEN /\ last' = ErrorResponse(r.op, req, 400,
                              "duplicate key value violates unique constraint users_email_key")
                /\ UNCHANGED users
           ELSE /\ users' = users \union {row}
                /\ last' = OkResponse(r.op, req, 200,
                              ApiRegisterUserView(row), NoToken, NoRecipe)
    /\ inflight' = Answered(r)
    /\ UNCHANGED <<variant, schema, now, recipes, nextRecipeId, held, createdBy>>

\* user: { id, name, email }
ApiUserView(row) == [id |-> row.id, email |-> row.email]

\* Lines 73-103: the response, and the token it carries (NoToken if none).
\* bcrypt.compare rejects an undefined password, which lands in the catch.
ApiLoginResponse(email, password) ==
    LET op == "POST /api/login"
        req == [Req0 EXCEPT !.email = email, !.password = password]
        rows == UsersByEmail(email)
        user == CHOOSE u \in rows : TRUE
    IN  IF rows = {}
        THEN ErrorResponse(op, req, 401, "Invalid credentials")
        ELSE IF BcryptThrows(password)
        THEN ErrorResponse(op, req, 500, "Login failed")
        ELSE IF ~BcryptCompare(password, user.password_hash)
        THEN ErrorResponse(op, req, 401, "Invalid credentials")
        ELSE OkResponse(op, req, 200, ApiUserView(user),
                        JwtSign(user.id, Undefined, now), NoRecipe)

ApiLogin(email, password) ==
    /\ variant = "api"
    /\ Sent
    /\ last' = ApiLoginResponse(email, password)
    /\ IF last'.token = NoToken THEN UNCHANGED held ELSE Keep(last'.token)
    /\ UNCHANGED <<variant, schema, now, users, recipes, nextRecipeId, createdBy, inflight>>

\* Lines 106-135.
ApiUser(bearer) ==
    /\ variant = "api"
    /\ Sent
    /\ LET op == "GET /api/user"
           req == [Req0 EXCEPT !.bearer = bearer]
           rows == UsersById(bearer.userId)
       IN  IF bearer.kind = "none"
           THEN last' = ErrorResponse(op, req, 401, "No token provided")
           ELSE IF ~JwtVerify(bearer, now)
           THEN last' = ErrorResponse(op, req, 401, "Invalid token")
           ELSE IF schema = "created"
           THEN last' = ErrorResponse(op, req, 401, "Invalid token")
           ELSE IF rows = {}
           THEN last' = ErrorResponse(op, req, 401, "User not found")
           ELSE last' = OkResponse(op, req, 200,
                            ApiUserView(CHOOSE u \in rows : TRUE), NoToken, NoRecipe)
    /\ UNCHANGED <<variant, schema, now, users, recipes, nextRecipeId, held, createdBy, inflight>>

----------------------------------------------------------------------------
(* Table recipes, in server.js and part_000.  The optional columns          *)
(* prep_time, cook_time and servings are passed through unchecked by every  *)
(* handler and are left out of the rows.                                    *)

\* SELECT ... FROM recipes WHERE id = $1
RecipesById(id) == {r \in recipes : r.id = id}

\* title, ingredients, instructions NOT NULL: an undefined parameter is sent
\* as NULL.
NotNullViolation(body) ==
    body.title = Undefined \/ body.ingredients = Undefined
        \/ body.instructions = Undefined

\* LEFT JOIN users u ON r.user_id = u.id, u.username as author
Author(r) ==
    IF \E u \in users : u.id = r.user_id
    THEN (CHOOSE u \in users : u.id = r.user_id).username
    ELSE Undefined

\* SELECT r.id, r.title, r.ingredients, r.instructions, ..., u.username as author
RecipeView(r) ==
    [id |-> r.id, title |-> r.title, ingredients |-> r.ingredients,
     instructions |-> r.instructions, author |-> Author(r)]

\* res.json({ success: true, count, recipes })
ListResponse(op, req, rows) ==
    [op |-> op, req |-> req, status |-> 200, error |-> "",
     user |-> NoUserView, token |-> NoToken, recipe |-> NoRecipe, list |-> rows]

\* part_000 authenticateToken: 401 without a token, 403 when jwt.verify
\* fails, 200 for next().
AuthenticateToken(bearer) ==
    IF bearer.kind = "none" THEN 401
    ELSE IF ~JwtVerify(bearer, now) THEN 403
    ELSE 200

AuthenticateError(status) ==
    IF status = 401 THEN "Access token required" ELSE "Invalid token"

\* What the client notes of a POST /recipes answered 201.
Noted(bearer, id) ==
    IF JwtVerify(bearer, now) THEN {[id |-> id, userId |-> bearer.userId]} ELSE {}

\* The user_id POST /recipes stores.
CreateOwner(bearer) == Null

\* POST /recipes (server.js 117-142, part_000 252-277): no middleware, so the
\* bearer of the request is not looked at.
RecipeCreate(bearer, body) ==
    /\ variant \in {"server", "auth"}
    /\ Sent
    /\ nextRecipeId <= MaxRecipes
    /\ LET op == "POST /recipes"
           req == [Req0 EXCEPT !.bearer = bearer, !.body = body]
           row == [id |-> nextRecipeId, user_id |-> CreateOwner(bearer),
                   title |-> body.title, ingredients |-> body.ingredients,
                   instructions |-> body.instructions]
       IN  IF Falsy(body.title) \/ Falsy(body.ingredients)
                \/ Falsy(body.instructions)
           THEN /\ last' = ErrorResponse(op, req, 400,
                              "Title, ingredients, and instructions are required")
                /\ UNCHANGED <<recipes, nextRecipeId, createdBy>>
           ELSE /\ recipes' = recipes \union {row}
                /\ nextRecipeId' = nextRecipeId + 1
                /\ last' = OkResponse(op, req, 201, NoUserView, NoToken, row)
                /\ createdBy' = createdBy \union Noted(bearer, row.id)
    /\ UNCHANGED <<variant, schema, now, users, held, inflight>>

\* GET /recipes
RecipeList ==
    /\ variant \in {"server", "auth"}
    /\ Sent
    /\ last' = ListResponse("GET /recipes", Req0, {RecipeView(r) : r \in recipes})
    /\ UNCHANGED <<variant, schema, now, users, recipes, nextRecipeId, held, createdBy, inflight>>

\* GET /recipes/:id
RecipeGet(id) ==
    /\ variant \in {"server", "auth"}
    /\ Sent
    /\ LET op == "GET /recipes/:id"
           req == [Req0 EXCEPT !.id = id]
           rows == RecipesById(id)
       IN  IF rows = {}
           THEN last' = ErrorResponse(op, req, 404, "Recipe not found")
           ELSE last' = OkResponse(op, req, 200, NoUserView, NoToken,
                            RecipeView(CHOOSE r \in rows : TRUE))
    /\ UNCHANGED <<variant, schema, now, users, recipes, nextRecipeId, held, createdBy, inflight>>

\* part_000 GET /my-recipes
MyRecipes(bearer) ==
    /\ variant = "auth"
    /\ Sent
    /\ LET op == "GET /my-recipes"
           req == [Req0 EXCEPT !.bearer = bearer]
           auth == AuthenticateToken(bearer)
       IN  IF auth # 200
           THEN last' = ErrorResponse(op, req, auth, AuthenticateError(auth))
           ELSE last' = ListResponse(op, req,
                            {r \in recipes : r.user_id = bearer.userId})
    /\ UNCHANGED <<variant, schema, now, users, recipes, nextRecipeId, held, createdBy, inflight>>

\* PUT /recipes/:id up to the UPDATE.  part_000 280-293: authenticateToken,
\* the SELECT and the ownership test; server.js 145-154: the SELECT alone.
RecipePutStart(bearer, id, body) ==
    /\ variant \in {"server", "auth"}
    /\ Sent
    /\ Free
    /\ LET op == "PUT /recipes/:id"
           req == [Req0 EXCEPT !.bearer = bearer, !.id = id, !.body = body]
           auth == IF variant = "auth" THEN AuthenticateToken(bearer) ELSE 200
           rows == RecipesById(id)
       IN  IF auth # 200
           THEN /\ last' = ErrorResponse(op, req, auth, AuthenticateError(auth))
                /\ UNCHANGED inflight
           ELSE IF rows = {}
           THEN /\ last' = ErrorResponse(op, req, 404, "Recipe not found")
                /\ UNCHANGED inflight
           ELSE IF variant = "auth"
                   /\ (CHOOSE r \in rows : TRUE).user_id # bearer.userId
           THEN /\ last' = ErrorResponse(op, req, 403,
                              "You can only update your own recipes")
                /\ UNCHANGED inflight
           ELSE /\ inflight' = Await(op, req)
                /\ UNCHANGED last
    /\ UNCHANGED <<variant, schema, now, users, recipes, nextRecipeId, held, createdBy>>

\* UPDATE recipes SET ... WHERE id = $7 RETURNING *, and the response
\* (part_000 295-308, server.js 156-169).  A row that is gone by now matches
\* nothing: the statement succeeds and result.rows[0] is undefined.
RecipePutUpdate(r) ==
    /\ variant \in {"server", "auth"}
    /\ Sent
    /\ Waiting(r, "PUT /recipes/:id")
    /\ LET req == r.req
           rows == RecipesById(req.id)
           old == CHOOSE x \in rows : TRUE
           new == [old EXCEPT !.title = req.body.title,
                              !.ingredients = req.body.ingredients,
                              !.instructions = req.body.instructions]
       IN  IF rows = {}
           THEN /\ last' = OkResponse(r.op, req, 200, NoUserView,
                              NoToken, NoRecipe)
                /\ UNCHANGED recipes
           ELSE IF NotNullViolation(req.body)
           THEN /\ last' = ErrorResponse(r.op, req, 500,
                              "Failed to update recipe")
                /\ UNCHANGED recipes
           ELSE /\ recipes' = (recipes \ {old}) \union {new}
                /\ last' = OkResponse(r.op, req, 200, NoUserView,
                              NoToken, new)
    /\ inflight' = Answered(r)
    /\ UNCHANGED <<variant, schema, now, users, nextRecipeId, held, createdBy>>

\* server.js 173-191: DELETE FROM recipes WHERE id = $1 RETURNING id
ServerRecipeDelete(bearer, id) ==
    /\ variant = "server"
    /\ Sent
    /\ LET op == "DELETE /recipes/:id"
           req == [Req0 EXCEPT !.bearer = bearer, !.id = id]
       IN  IF RecipesById(id) = {}
           THEN /\ last' = ErrorResponse(op, req, 404, "Recipe not found")
                /\ UNCHANGED recipes
           ELSE /\ recipes' = recipes \ RecipesById(id)
                /\ last' = OkResponse(op, req, 200, NoUserView, NoToken, NoRecipe)
    /\ UNCHANGED <<variant, schema, now, users, nextRecipeId, held, createdBy, inflight>>

\* part_000 312-320: no middleware; the existence SELECT.
AuthRecipeDeleteStart(bearer, id) ==
    /\ variant = "auth"
    /\ Sent
    /\ Free
    /\ LET op == "DELETE /recipes/:id"
           req == [Req0 EXCEPT !.bearer = bearer, !.id = id]
       IN  IF RecipesById(id) = {}
           THEN /\ last' = ErrorResponse(op, req, 404, "Recipe not found")
                /\ UNCHANGED inflight
           ELSE /\ inflight' = Await(op, req)
                /\ UNCHANGED last
    /\ UNCHANGED <<variant, schema, now, users, recipes, nextRecipeId, held, createdBy>>

\* part_000 322-327: DELETE FROM recipes WHERE id = $1, and the response.
AuthRecipeDelete(r) ==
    /\ variant = "auth"
    /\ Sent
    /\ Waiting(r, "DELETE /recipes/:id")
    /\ recipes' = recipes \ RecipesById(r.req.id)
    /\ last' = OkResponse(r.op, r.req, 200, NoUserView,
                   NoToken, NoRecipe)
    /\ inflight' = Answered(r)
    /\ UNCHANGED <<variant, schema, now, users, nextRecipeId, held, createdBy>>

----------------------------------------------------------------------------
(* The clock *)

Tick ==
    /\ Sent
    /\ now < MaxNow
    /\ now' = now + ClockStep
    /\ UNCHANGED <<variant, schema, users, recipes, nextRecipeId, held, createdBy, inflight, last>>

\* The response goes out; the next step of any handler comes after it.
Send ==
    /\ ~Sent
    /\ last' = NoResponse
    /\ UNCHANGED <<variant, schema, now, users, recipes, nextRecipeId, held, createdBy, inflight>>

----------------------------------------------------------------------------

Variants == {"server", "auth", "api"}

Init ==
    /\ variant \in Variants
    /\ schema \in {"created", "existing"}
    /\ (variant # "api" => schema = "created")
    /\ now = 0
    /\ users = {}
    /\ recipes = {}
    /\ nextRecipeId = 1
    /\ held = NoToken
    /\ createdBy = {}
    /\ inflight = EmptyBag
    /\ last = NoResponse

\* The endpoints on users and tokens.
UserStep ==
    \/ \E u \in Usernames, e \in Emails, p \in Passwords :
          AuthRegisterStart(u, e, p)
    \/ \E w \in BagToSet(inflight) : AuthRegisterInsert(w)
    \/ \E u \in Usernames, p \in Passwords : AuthLogin(u, p)
    \/ \E e \in Emails, p \in Passwords : ApiRegisterStart(e, p)
    \/ \E w \in BagToSet(inflight) : ApiRegisterInsert(w)
    \/ \E e \in Emails, p \in Passwords : ApiLogin(e, p)
    \/ \E b \in Bearers : ApiUser(b)
    \/ \E b \in Bearers : MyRecipes(b)

\* The endpoints that read recipes.
RecipeReadStep ==
    \/ RecipeList
    \/ \E id \in RecipeIds : RecipeGet(id)

\* The endpoints that write recipes.
RecipeWriteStep ==
    \/ \E b \in Bearers, body \in RecipeBodies : RecipeCreate(b, body)
    \/ \E b \in Bearers, id \in RecipeIds, body \in RecipeBodies :
          RecipePutStart(b, id, body)
    \/ \E w \in BagToSet(inflight) : RecipePutUpdate(w)
    \/ \E b \in Bearers, id \in RecipeIds : ServerRecipeDelete(b, id)
    \/ \E b \in Bearers, id \in RecipeIds : AuthRecipeDeleteStart(b, id)
    \/ \E w \in BagToSet(inflight) : AuthRecipeDelete(w)

Next == UserStep \/ RecipeReadStep \/ RecipeWriteStep \/ Tick \/ Send

Spec == Init /\ [][Next]_vars

\* PUT and DELETE on a store that holds no recipe.
RecipeMissStep ==
    \/ \E b \in Bearers, id \in RecipeIds, body \in RecipeBodies :
          RecipePutStart(b, id, body)
    \/ \E b \in Bearers, id \in RecipeIds : ServerRecipeDelete(b, id)
    \/ \E b \in Bearers, id \in RecipeIds : AuthRecipeDeleteStart(b, id)

\* The programs when no client sends POST /recipes: every endpoint is
\* requested, and PUT and DELETE end at their SELECT.
NextUsers == UserStep \/ RecipeReadStep \/ RecipeMissStep \/ Tick \/ Send

SpecUsers == Init /\ [][NextUsers]_vars

----------------------------------------------------------------------------
(* The claims.  A response is judged in the state where last holds it: no   *)
(* other step is taken before Send, so users, recipes and now are those the *)
(* response was given in.                                                   *)

RegisterOps == {"POST /auth/register", "POST /api/register"}
LoginOps == {"POST /auth/login", "POST /api/login"}

\* The endpoints behind a bearer token.
ProtectedOp(op) ==
    \/ variant = "auth" /\ op \in {"PUT /recipes/:id", "GET /my-recipes"}
    \/ variant = "api" /\ op = "GET /api/user"

\* The answers that turn a request away for its token.
TokenRejected(resp) ==
    resp.error \in {"Access token required", "Invalid token", "No token provided"}

\* The step that answers a request with op.
Answers(op) == last = NoResponse /\ last'.op = op

\* C1: PUT /recipes/:id with a valid token is answered 404 when the recipe
\* does not exist, 403 with the store unchanged when its owner is not the
\* token's user, 200 with the row updated when its owner is the token's user;
\* and the owner's success can be had through the API: a user who PUTs, with
\* a valid token, a recipe created under that token is answered 200.
C1_OwnerUpdatesOthersDenied ==
    [][(variant = "auth" /\ Answers("PUT /recipes/:id")
          /\ JwtVerify(last'.req.bearer, now))
       => LET u == last'.req.bearer.userId
              id == last'.req.id
              rows == RecipesById(id)
          IN  /\ rows = {} => last'.status = 404
              /\ \A r \in rows :
                    /\ r.user_id # u /\ [id |-> id, userId |-> u] \notin createdBy
                          => last'.status = 403 /\ recipes' = recipes
                    /\ r.user_id = u \/ [id |-> id, userId |-> u] \in createdBy
                          => /\ last'.status = 200
                             /\ \E x \in recipes' :
                                   /\ x.id = id
                                   /\ x.title = last'.req.body.title]_vars

\* C2: a recipe leaves the store only by a DELETE /recipes/:id whose bearer
\* is a valid token of the recipe's owner.
C2_DeleteOnlyByOwner ==
    [][\A r \in recipes :
          (\A x \in recipes' : x.id # r.id)
          => /\ last'.op = "DELETE /recipes/:id"
             /\ JwtVerify(last'.req.bearer, now)
             /\ last'.req.bearer.userId = r.user_id]_vars

\* The request passes the handler's own validation.
ValidRegistration(req) ==
    variant = "auth" =>
        /\ ~Falsy(req.username) /\ ~Falsy(req.email) /\ ~Falsy(req.password)
        /\ StrLen(req.password) >= 6

\* The request names a username or an email that a stored user holds.
NameTaken(req) ==
    \E u \in users : \/ variant = "auth" /\ u.username = req.username
                     \/ u.email = req.email

\* C3: a registration that is turned down while its username or email is held
\* by a stored user is answered 400 with an "already exists" error, whatever
\* the interleaving with another registration.
C3_DuplicateRegistrationIs400 ==
    (last.op \in RegisterOps /\ last.user = NoUserView
        /\ ValidRegistration(last.req) /\ NameTaken(last.req))
    => /\ last.status = 400
       /\ last.error \in {"Username or email already exists",
                          "Email already registered"}

\* What a client sees of a response to tell two requests apart.
Outward(resp) == <<resp.status, resp.error>>

\* C4: with the same password field, a login naming no stored user and a
\* login naming a stored user whose password that is not are answered alike.
C4_LoginFailuresAlike ==
    /\ variant = "auth" =>
          \A n1 \in Usernames, n2 \in Usernames, p \in Passwords :
             (/\ UsersByUsername(n1) = {}
              /\ \E u \in UsersByUsername(n2) :
                    p = Undefined \/ ~BcryptCompare(p, u.password_hash))
             => Outward(AuthLoginResponse(n1, p)) = Outward(AuthLoginResponse(n2, p))
    /\ variant = "api" =>
          \A e1 \in Emails, e2 \in Emails, p \in Passwords :
             (/\ UsersByEmail(e1) = {}
              /\ \E u \in UsersByEmail(e2) :
                    p = Undefined \/ ~BcryptCompare(p, u.password_hash))
             => Outward(ApiLoginResponse(e1, p)) = Outward(ApiLoginResponse(e2, p))

\* C5: on a token-protected endpoint a request with no token, or with a token
\* that fails verification, is answered 401.
C5_TokenFailuresAre401 ==
    (ProtectedOp(last.op) /\ ~JwtVerify(last.req.bearer, now))
    => last.status = 401

\* C6: a token is issued with the clock value of its response as iat, and a
\* protected endpoint takes a token signed by the server exactly while
\* now < iat + 24h: from iat + 24h on it turns the request away.
C6_TokenLifetime ==
    /\ last.token # NoToken => last.token.iat = now
    /\ (ProtectedOp(last.op) /\ last.req.bearer.kind = "jwt"
           /\ last.req.bearer.key = "server")
       => (TokenRejected(last) <=> now >= last.req.bearer.iat + TTL)

C6_ExpiredTokenRejected ==
    /\ ProtectedOp(last.op)
    /\ last.req.bearer.kind = "jwt" /\ last.req.bearer.key = "server"
    /\ now >= last.req.bearer.iat + TTL
    /\ TokenRejected(last)

\* The fields of a response that hold numbers.
NumberFields == {"id", "user_id"}

\* No field of rec is named password_hash or holds a stored hash.
NoHashIn(rec) ==
    /\ "password_hash" \notin DOMAIN rec
    /\ \A f \in DOMAIN rec \ NumberFields :
          \A u \in users : rec[f] # u.password_hash

\* C7: stored users have pairwise distinct usernames (where the table has the
\* column) and pairwise distinct emails, and no response holds a stored
\* password hash: not as a field of its user, recipe or listed recipes, not
\* in its error text, not in the payload of its token.
C7_UniqueUsersNoHashInResponse ==
    /\ \A u1 \in users, u2 \in users :
          u1 # u2 => /\ u1.id # u2.id
                     /\ u1.email # u2.email
                     /\ variant = "auth" => u1.username # u2.username
    /\ NoHashIn(last.user)
    /\ NoHashIn(last.recipe)
    /\ \A x \in last.list : NoHashIn(x)
    /\ \A u \in users : /\ last.error # u.password_hash
                        /\ last.token.username # u.password_hash

C7_TwoUsersAndUserInResponse ==
    /\ Cardinality(users) = 2
    /\ last.op \in LoginOps
    /\ last.status = 200
    /\ last.user # NoUserView

\* C8: a registration whose password is missing, empty or shorter than 6
\* characters is answered 400, and no stored user has such a password.
C8_ShortPasswordRejected ==
    /\ (last.op \in RegisterOps
           /\ (last.req.password = Undefined \/ StrLen(last.req.password) < 6))
       => last.status = 400
    /\ \A u \in users, p \in Passwords \ {Undefined} :
          StrLen(p) < 6 => ~BcryptCompare(p, u.password_hash)

\* C9: a successful registration is answered 201 with the user and a token of
\* that user; a login with a stored user's name and password is answered 200
\* with a token whose userId is that user's id; a current-user request with a
\* valid token is answered 200 with the id and email of the token's user.
C9_RegisterLoginCurrentUser ==
    /\ (last.op \in RegisterOps /\ last.user # NoUserView)
       => /\ last.status = 201
          /\ last.token.kind = "jwt"
          /\ last.token.userId = last.user.id
    /\ last.op \in LoginOps
       => \A u \in users :
             (/\ \/ variant = "auth" /\ u.username = last.req.username
                 \/ variant = "api" /\ u.email = last.req.email
              /\ last.req.password # Undefined
              /\ BcryptCompare(last.req.password, u.password_hash))
             => /\ last.status = 200
                /\ last.token.userId = u.id
                /\ last.user.id = u.id
    /\ (last.op = "GET /api/user" /\ JwtVerify(last.req.bearer, now))
       => /\ last.status = 200
          /\ \E u \in users : /\ u.id = last.req.bearer.userId
                              /\ last.user.id = u.id
                              /\ last.user.email = u.email

\* C10: every stored recipe has a non-empty title, non-empty ingredients and
\* non-empty instructions.
C10_MandatoryFieldsKept ==
    \A r \in recipes :
        ~Falsy(r.title) /\ ~Falsy(r.ingredients) /\ ~Falsy(r.instructions)

\* C11: every handler acts on the store as one atomic interaction, so each
\* response is one that some sequential order of the requests gives: a
\* DELETE /recipes/:id answered 200 'Recipe deleted successfully' is the one
\* that removed the row (ids are never reused, so of two DELETEs of one recipe
\* only one is), and a PUT /recipes/:id answered 200 'Recipe updated
\* successfully' carries the updated row, which is in the store.
C11_AtomicHandlers ==
    [][/\ (Answers("DELETE /recipes/:id") /\ last'.status = 200)
          => /\ \E x \in recipes : x.id = last'.req.id
             /\ \A x \in recipes' : x.id # last'.req.id
       /\ (Answers("PUT /recipes/:id") /\ last'.status = 200)
          => /\ last'.recipe # NoRecipe
             /\ last'.recipe \in recipes']_vars

\* A PUT that raced with a DELETE is answered 200 with no recipe row.
C11_UpdatedWithoutRow ==
    /\ last.op = "PUT /recipes/:id"
    /\ last.status = 200
    /\ last.recipe = NoRecipe
    /\ \A x \in recipes : x.id # last.req.id

====
